---- MODULE Spec2Model ----
(***************************************************************************)
(* State-machine model of src/epicycles.py: SVG sampling, contour          *)
(* stitching, normalisation, epicycle selection and animation              *)
(* pre-computation.                                                        *)
(*                                                                         *)
(* Numbers.  The program computes in binary floating point; the model      *)
(* computes the same expressions exactly.  Input coordinates are integers  *)
(* in units of the closing tolerance (1e-6); the centred and scaled cloud  *)
(* is held as integer points with a common factor op_num / op_den.         *)
(* Euclidean distances are compared through their squares.  The angles    *)
(* 2*pi*freq*step/S are multiples of 2*pi/S, and a real number of the      *)
(* animation is kept as integer weights on the cosines and sines of those  *)
(* multiples.  Rounding error is outside the model.                        *)
(***************************************************************************)
EXTENDS Integers, Sequences, FiniteSets, TLC

VARIABLES
    pc,               \* position in the running function
    caller,           \* who called connect_contours_tsp: "svg" or "direct"
    \* load_and_process_svg
    paths,            \* svg2paths(filepath)[0]
    samples_per_path, \* CONFIG['samples_per_path']
    all_contours, path_idx, points, i, t,
    ordered_points, op_num, op_den,
    \* connect_contours_tsp
    contours, ordered, current_pos, remaining,
    best_contour, best_dist, should_reverse,
    \* find_optimal_epicycles
    coefficients,     \* dict items in insertion order: <<freq, <<re, im>>>>
    energy_threshold, \* CONFIG['energy_threshold'] * ThrDen
    min_epicycles, max_epicycles,
    sorted_items, total_energy, cumulative_energy, optimal_count, scan_i,
    final_energy, result,
    k0_seen,          \* history: <<threshold, optimal_count before the clamp>> per call
    \* precompute_animation
    anim_coefficients, \* the EpicycleSet: <<freq, <<re, im>>>> in chaining order
    num_steps, step, term_j,
    path_points, epicycle_states,
    z, circles, vectors, current_z, prev_pos

svgVars == <<paths, samples_per_path, all_contours, path_idx, points, i, t>>
cloudVars == <<ordered_points, op_num, op_den>>
tspVars == <<contours, ordered, current_pos, remaining, best_contour, best_dist,
             should_reverse>>
fourierVars == <<coefficients, energy_threshold, min_epicycles, max_epicycles,
                 sorted_items, total_energy, cumulative_energy, optimal_count,
                 scan_i, final_energy, result, k0_seen>>
animVars == <<anim_coefficients, num_steps, step, term_j, path_points,
              epicycle_states, z, circles, vectors, current_z, prev_pos>>
laterStages == <<fourierVars, animVars>>
vars == <<pc, caller, svgVars, cloudVars, tspVars, fourierVars, animVars>>

----------------------------------------------------------------------------
(* Bounds of the model *)

MaxPaths == 2          \* segments in the path source
MaxSamples == 2        \* samples_per_path
MaxContours == 3       \* contours handed to connect_contours_tsp directly
MaxContourLen == 2     \* points per contour handed in directly
MaxTerms == 3          \* Fourier coefficients handed to find_optimal_epicycles
MaxEpi == 4            \* largest min_epicycles / max_epicycles
ThrDen == 4            \* energy thresholds are 1/ThrDen .. ThrDen/ThrDen
MaxCalls == 2          \* calls of find_optimal_epicycles on one coefficient set
MaxChain == 2          \* terms of the EpicycleSet handed to precompute_animation
MaxSteps == 4          \* num_steps

(* Program constants, in model units (1 unit = 1e-6) *)
ClosingTol == 1
ScaleFactor == 8000000

(* Value alphabets of the inputs *)
Coords == {0, 1}
Origins == {0, 1}
Speeds == {0, 1}
CoeffValues == {<<0, 0>>, <<1, 0>>, <<0, -1>>, <<1, 1>>, <<-2, 0>>}
ChainFreqs == {-1, 1, 2}
ChainCoeffs == {<<1, 0>>, <<0, 1>>, <<-1, 2>>}

----------------------------------------------------------------------------
(* Points and sequences *)

None == "None"

Pt(x, y) == <<x, y>>

Sub(p, q) == <<p[1] - q[1], p[2] - q[2]>>

Norm2(p) == p[1] * p[1] + p[2] * p[2]

Dist2(p, q) == Norm2(Sub(p, q))

Abs(n) == IF n < 0 THEN -n ELSE n

Max(a, b) == IF a >= b THEN a ELSE b

Min(a, b) == IF a <= b THEN a ELSE b

Reverse(s) == [k \in 1..Len(s) |-> s[Len(s) + 1 - k]]

RECURSIVE Concat(_)
Concat(ss) == IF ss = <<>> THEN <<>> ELSE Head(ss) \o Concat(Tail(ss))

RECURSIVE SeqsUpTo(_, _)
SeqsUpTo(S, n) ==
    IF n = 0 THEN {<<>>}
    ELSE LET shorter == SeqsUpTo(S, n - 1)
         IN  shorter \cup {Append(s, e) : s \in {q \in shorter : Len(q) = n - 1}, e \in S}

----------------------------------------------------------------------------
(* connect_contours_tsp *)

Inf == -1

Less(d, best) == best = Inf \/ d < best

ScanContour(acc, contour, pos) ==
    LET dist_start == Dist2(pos, contour[1])
        a1 == IF Less(dist_start, acc.dist)
              THEN [dist |-> dist_start, contour |-> contour, rev |-> FALSE]
              ELSE acc
        dist_end == Dist2(pos, contour[Len(contour)])
    IN  IF Less(dist_end, a1.dist)
        THEN [dist |-> dist_end, contour |-> contour, rev |-> TRUE]
        ELSE a1

RECURSIVE ScanRemaining(_, _, _)
ScanRemaining(rem, pos, acc) ==
    IF rem = <<>> THEN acc
    ELSE ScanRemaining(Tail(rem), pos, ScanContour(acc, Head(rem), pos))

ScanStartZero == [dist |-> 0, contour |-> None, rev |-> FALSE]

ScanStart == [dist |-> Inf, contour |-> None, rev |-> FALSE]

StillRemaining(c, best) == c # best /\ c # Reverse(best)

TspEnter ==
    /\ pc = "tsp_entry"
    /\ IF contours = <<>> \/ contours[1] = <<>>
       THEN /\ pc' = "raised"
            /\ UNCHANGED <<ordered, current_pos, remaining>>
       ELSE /\ ordered' = <<>>
            /\ current_pos' = contours[1][1]
            /\ remaining' = contours
            /\ pc' = "tsp_loop"
    /\ UNCHANGED <<laterStages, caller, svgVars, cloudVars, contours, best_contour, best_dist,
                   should_reverse>>

TspIter ==
    /\ pc = "tsp_loop"
    /\ remaining # <<>>
    /\ LET found == ScanRemaining(remaining, current_pos, ScanStart)
       IN  IF found.contour = None
           THEN /\ pc' = "raised"
                /\ best_contour' = None
                /\ best_dist' = found.dist
                /\ should_reverse' = found.rev
                /\ UNCHANGED <<ordered, current_pos, remaining>>
           ELSE LET best == IF found.rev THEN Reverse(found.contour)
                            ELSE found.contour
                IN  /\ best_contour' = best
                    /\ best_dist' = found.dist
                    /\ should_reverse' = found.rev
                    /\ ordered' = Append(ordered, best)
                    /\ current_pos' = best[Len(best)]
                    /\ remaining' = SelectSeq(remaining,
                                              LAMBDA c : StillRemaining(c, best))
                    /\ pc' = "tsp_loop"
    /\ UNCHANGED <<laterStages, caller, svgVars, cloudVars, contours>>

TspReturn ==
    /\ pc = "tsp_loop"
    /\ remaining = <<>>
    /\ ordered_points' = Concat(ordered)
    /\ pc' = IF caller = "svg" THEN "close" ELSE "tsp_done"
    /\ UNCHANGED <<laterStages, caller, svgVars, op_num, op_den, tspVars>>

----------------------------------------------------------------------------
(* load_and_process_svg: sampling *)

RECURSIVE Gcd(_, _)
Gcd(a, b) == IF b = 0 THEN a ELSE Gcd(b, a % b)

RECURSIVE LcmUpTo(_)
LcmUpTo(n) == IF n <= 1 THEN 1
              ELSE LET l == LcmUpTo(n - 1) IN (l * n) \div Gcd(l, n)

(* Curve parameters t in [0,1] are held as multiples of 1/ParamGrid. *)
ParamGrid == LcmUpTo(MaxSamples) * LcmUpTo(MaxSamples)

(* path.length(): the curve runs upwards from (ox, 0) over v * ParamGrid units *)
PathLength(path) == path.v * ParamGrid

(* (i / samples_per_path) * path_length *)
ArcLength(k, M, path_length) == (k * path_length) \div M

(* path.ilength(arc_length): the curve is traversed at non-uniform speed, arc
   length s(t) = L * sqrt(t), which inverts to t = (s/L)^2; a curve of length
   0 inverts to t = 0. *)
Ilength(path, arc_length) ==
    IF PathLength(path) = 0 THEN 0
    ELSE (arc_length * arc_length * ParamGrid) \div (PathLength(path) * PathLength(path))

(* the samples at which path.ilength raises are a property of the curve *)
IlengthRaises(path, k) == k \in path.fails

FallbackParamIntDiv(k, M) == (k \div M) * ParamGrid

FallbackParam(k, M) == (k * ParamGrid) \div M

(* path.point(t), with the y axis flipped as in [point.real, -point.imag] *)
PointAt(path, tt) == Pt(path.ox, path.v * tt)

PathsFor(M) ==
    [ox : Origins, v : Speeds, fails : SUBSET (0..(M - 1))]

SvgPathStart ==
    /\ pc = "svg_paths"
    /\ path_idx <= Len(paths)
    /\ points' = <<>>
    /\ i' = 0
    /\ pc' = "svg_sample"
    /\ UNCHANGED <<laterStages, caller, paths, samples_per_path, all_contours, path_idx, t,
                   cloudVars, tspVars>>

SvgSample ==
    /\ pc = "svg_sample"
    /\ i < samples_per_path
    /\ LET path == paths[path_idx]
           arc_length == ArcLength(i, samples_per_path, PathLength(path))
           tt == IF IlengthRaises(path, i)
                 THEN FallbackParam(i, samples_per_path)
                 ELSE Ilength(path, arc_length)
       IN  /\ t' = tt
           /\ points' = Append(points, PointAt(path, tt))
    /\ i' = i + 1
    /\ UNCHANGED <<laterStages, pc, caller, paths, samples_per_path, all_contours, path_idx,
                   cloudVars, tspVars>>

SvgPathEnd ==
    /\ pc = "svg_sample"
    /\ i >= samples_per_path
    /\ all_contours' = Append(all_contours, points)
    /\ path_idx' = path_idx + 1
    /\ pc' = "svg_paths"
    /\ UNCHANGED <<laterStages, caller, paths, samples_per_path, points, i, t, cloudVars, tspVars>>

SvgStitch ==
    /\ pc = "svg_paths"
    /\ path_idx > Len(paths)
    /\ IF Len(all_contours) = 1
       THEN /\ ordered_points' = all_contours[1]
            /\ pc' = "close"
            /\ UNCHANGED <<caller, contours>>
       ELSE /\ contours' = all_contours
            /\ caller' = "svg"
            /\ pc' = "tsp_entry"
            /\ UNCHANGED ordered_points
    /\ UNCHANGED <<laterStages, svgVars, op_num, op_den, ordered, current_pos, remaining,
                   best_contour, best_dist, should_reverse>>

----------------------------------------------------------------------------
(* load_and_process_svg: close, centre, scale *)

NeedsClosing(first, last) == Dist2(first, last) > ClosingTol * ClosingTol

RECURSIVE SumPts(_)
SumPts(ps) == IF ps = <<>> THEN <<0, 0>>
              ELSE LET r == SumPts(Tail(ps))
                   IN  <<Head(ps)[1] + r[1], Head(ps)[2] + r[2]>>

RECURSIVE MaxAbs(_)
MaxAbs(ps) == IF ps = <<>> THEN 0
              ELSE Max(Max(Abs(Head(ps)[1]), Abs(Head(ps)[2])), MaxAbs(Tail(ps)))

SvgClose ==
    /\ pc = "close"
    /\ IF ordered_points = <<>>
       THEN /\ pc' = "raised"
            /\ UNCHANGED ordered_points
       ELSE /\ ordered_points' =
                  IF NeedsClosing(ordered_points[1], ordered_points[Len(ordered_points)])
                  THEN Append(ordered_points, ordered_points[1])
                  ELSE ordered_points
            /\ pc' = "center"
    /\ UNCHANGED <<laterStages, caller, svgVars, op_num, op_den, tspVars>>

(* mean subtraction: with n points, n*p - sum(p) over the common denominator n *)
SvgCenter ==
    /\ pc = "center"
    /\ LET n == Len(ordered_points)
           s == SumPts(ordered_points)
       IN  /\ ordered_points' = [k \in 1..n |->
                  <<n * ordered_points[k][1] - s[1], n * ordered_points[k][2] - s[2]>>]
           /\ op_den' = op_den * n
    /\ pc' = "scale"
    /\ UNCHANGED <<laterStages, caller, svgVars, op_num, tspVars>>

(* p / max_extent * scale_factor: max_extent = MaxAbs * op_num / op_den, so the
   scaled value of every point is p * ScaleFactor / MaxAbs *)
SvgScale ==
    /\ pc = "scale"
    /\ LET m == MaxAbs(ordered_points)
       IN  IF m > 0
           THEN /\ op_num' = ScaleFactor
                /\ op_den' = m
           ELSE UNCHANGED <<op_num, op_den>>
    /\ pc' = "svg_done"
    /\ UNCHANGED <<laterStages, caller, svgVars, ordered_points, tspVars>>

----------------------------------------------------------------------------
(* find_optimal_epicycles *)

(* np.fft.fftfreq(N, d=1/N).astype(int) at position k (0-based) *)
FftFreq(N, k) == IF k <= (N - 1) \div 2 THEN k ELSE k - N

(* the dict built by compute_fourier_coefficients from fft_result *)
AsCoefficients(fft_result) ==
    [k \in 1..Len(fft_result) |-> <<FftFreq(Len(fft_result), k - 1), fft_result[k]>>]

(* abs(c)**2 *)
Energy(c) == c[1] * c[1] + c[2] * c[2]

(* sorted(..., key=abs, reverse=True) is stable: an item goes behind every
   item already placed whose magnitude is at least its own *)
RECURSIVE InsertDesc(_, _)
InsertDesc(done, item) ==
    IF done = <<>> THEN <<item>>
    ELSE IF Energy(Head(done)[2]) >= Energy(item[2])
         THEN <<Head(done)>> \o InsertDesc(Tail(done), item)
         ELSE <<item>> \o done

RECURSIVE SortDesc(_)
SortDesc(items) ==
    IF items = <<>> THEN <<>>
    ELSE InsertDesc(SortDesc(SubSeq(items, 1, Len(items) - 1)), items[Len(items)])

RECURSIVE SumEnergy(_)
SumEnergy(items) == IF items = <<>> THEN 0
                    ELSE Energy(Head(items)[2]) + SumEnergy(Tail(items))

ReachesInverted(cum, total, thr) == total > 0 /\ cum * ThrDen <= thr * total

(* energy_ratio >= CONFIG['energy_threshold']; with total_energy 0.0 the ratio
   of numpy floats is nan and the comparison is False *)
Reaches(cum, total, thr) == total > 0 /\ cum * ThrDen >= thr * total

FourierLocalsUnset ==
    /\ sorted_items = <<>>
    /\ total_energy = 0
    /\ cumulative_energy = 0
    /\ optimal_count = 0
    /\ scan_i = 1
    /\ final_energy = 0
    /\ result = None

notFourier == <<caller, svgVars, cloudVars, tspVars, animVars>>

FourierSort ==
    /\ pc = "f_sort"
    /\ sorted_items' = SortDesc(coefficients)
    /\ total_energy' = SumEnergy(SortDesc(coefficients))
    /\ cumulative_energy' = 0
    /\ optimal_count' = 0
    /\ scan_i' = 1
    /\ pc' = "f_scan"
    /\ UNCHANGED <<notFourier, coefficients, energy_threshold, min_epicycles,
                   max_epicycles, final_energy, result, k0_seen>>

FourierScan ==
    /\ pc = "f_scan"
    /\ scan_i <= Len(sorted_items)
    /\ LET cum == cumulative_energy + Energy(sorted_items[scan_i][2])
       IN  /\ cumulative_energy' = cum
           /\ IF Reaches(cum, total_energy, energy_threshold)
              THEN /\ optimal_count' = scan_i
                   /\ pc' = "f_fallback"
                   /\ UNCHANGED scan_i
              ELSE /\ scan_i' = scan_i + 1
                   /\ UNCHANGED <<optimal_count, pc>>
    /\ UNCHANGED <<notFourier, coefficients, energy_threshold, min_epicycles,
                   max_epicycles, sorted_items, total_energy, final_energy, result,
                   k0_seen>>

FourierScanEnd ==
    /\ pc = "f_scan"
    /\ scan_i > Len(sorted_items)
    /\ pc' = "f_fallback"
    /\ UNCHANGED <<notFourier, fourierVars>>

FourierFallback ==
    /\ pc = "f_fallback"
    /\ optimal_count' = IF optimal_count = 0 THEN Len(sorted_items) ELSE optimal_count
    /\ pc' = "f_clamp"
    /\ UNCHANGED <<notFourier, coefficients, energy_threshold, min_epicycles,
                   max_epicycles, sorted_items, total_energy, cumulative_energy,
                   scan_i, final_energy, result, k0_seen>>

FourierClamp ==
    /\ pc = "f_clamp"
    /\ optimal_count' = Max(min_epicycles, Min(optimal_count, max_epicycles))
    /\ k0_seen' = Append(k0_seen, <<energy_threshold, optimal_count>>)
    /\ pc' = "f_final"
    /\ UNCHANGED <<notFourier, coefficients, energy_threshold, min_epicycles,
                   max_epicycles, sorted_items, total_energy, cumulative_energy,
                   scan_i, final_energy, result>>

(* sorted_items[i] for i in range(optimal_count): IndexError past the end *)
FourierFinal ==
    /\ pc = "f_final"
    /\ IF optimal_count > Len(sorted_items)
       THEN /\ pc' = "f_raised"
            /\ UNCHANGED final_energy
       ELSE /\ final_energy' = SumEnergy(SubSeq(sorted_items, 1, optimal_count))
            /\ pc' = "f_return"
    /\ UNCHANGED <<notFourier, coefficients, energy_threshold, min_epicycles,
                   max_epicycles, sorted_items, total_energy, cumulative_energy,
                   optimal_count, scan_i, result, k0_seen>>

FourierReturn ==
    /\ pc = "f_return"
    /\ result' = [count |-> optimal_count,
                  terms |-> SubSeq(sorted_items, 1, Min(optimal_count, Len(sorted_items))),
                  energy |-> <<final_energy, total_energy>>]
    /\ pc' = "f_done"
    /\ UNCHANGED <<notFourier, coefficients, energy_threshold, min_epicycles,
                   max_epicycles, sorted_items, total_energy, cumulative_energy,
                   optimal_count, scan_i, final_energy, k0_seen>>

(* the caller changes CONFIG['energy_threshold'] and calls again on the same
   coefficients *)
FourierCallAgain ==
    /\ pc \in {"f_done", "f_raised"}
    /\ Len(k0_seen) < MaxCalls
    /\ \E thr \in 1..ThrDen :
           /\ \A k \in 1..Len(k0_seen) : k0_seen[k][1] # thr
           /\ energy_threshold' = thr
    /\ pc' = "f_sort"
    /\ UNCHANGED <<notFourier, coefficients, min_epicycles, max_epicycles,
                   sorted_items, total_energy, cumulative_energy, optimal_count,
                   scan_i, final_energy, result, k0_seen>>

----------------------------------------------------------------------------
(* precompute_animation *)

(* A real number is a sum of weighted cosines and sines of the multiples of
   2*pi/S: a function k |-> <<weight of cos(2*pi*k/S), weight of sin(2*pi*k/S)>>.
   A complex number is <<real part, imaginary part>>. *)
RZero(S) == [k \in 0..(S - 1) |-> <<0, 0>>]

(* complex(0, 0) *)
CxZero(S) == <<RZero(S), RZero(S)>>

RAdd(r, k, w) == [r EXCEPT ![k] = <<@[1] + w[1], @[2] + w[2]>>]

AngleIntDiv(freq, stp, S) == (freq * (stp \div S)) % S

(* 2*pi*freq*t with t = step / num_steps, as a multiple of 2*pi/S *)
Angle(freq, stp, S) == (freq * stp) % S

(* zz + coeff * np.exp(2j * np.pi * freq * t):
   (a + bi)(cos + i sin) = (a cos - b sin) + i (b cos + a sin) *)
CxAddRotated(zz, coeff, k) ==
    <<RAdd(zz[1], k, <<coeff[1], -coeff[2]>>), RAdd(zz[2], k, <<coeff[2], coeff[1]>>)>>

(* np.array([z.real, z.imag, 0]) *)
AsPosition(zz, S) == <<zz[1], zz[2], RZero(S)>>

(* np.array([0, 0, 0]) *)
OriginPos(S) == <<RZero(S), RZero(S), RZero(S)>>

(* abs(coeff), the non-negative root of re^2 + im^2 *)
Magnitude(coeff) == [sqrt_of |-> Energy(coeff)]

CircleCenterAhead(prev, next) == next

(* 'center': prev_pos.copy() *)
CircleCenter(prev, next) == prev

ChainStartStale(stale, S) == IF stale = None THEN CxZero(S) ELSE stale

(* current_z = complex(0, 0) at the head of every frame *)
ChainStart(stale, S) == CxZero(S)

notAnim == <<caller, svgVars, cloudVars, tspVars, fourierVars>>

AnimFrameStart ==
    /\ pc = "a_loop"
    /\ step < num_steps
    /\ z' = CxZero(num_steps)
    /\ term_j' = 1
    /\ pc' = "a_pen"
    /\ UNCHANGED <<notAnim, anim_coefficients, num_steps, step, path_points,
                   epicycle_states, circles, vectors, current_z, prev_pos>>

AnimPenTerm ==
    /\ pc = "a_pen"
    /\ term_j <= Len(anim_coefficients)
    /\ LET freq == anim_coefficients[term_j][1]
           coeff == anim_coefficients[term_j][2]
       IN  z' = CxAddRotated(z, coeff, Angle(freq, step, num_steps))
    /\ term_j' = term_j + 1
    /\ UNCHANGED <<notAnim, pc, anim_coefficients, num_steps, step, path_points,
                   epicycle_states, circles, vectors, current_z, prev_pos>>

AnimPenDone ==
    /\ pc = "a_pen"
    /\ term_j > Len(anim_coefficients)
    /\ path_points' = Append(path_points, AsPosition(z, num_steps))
    /\ circles' = <<>>
    /\ vectors' = <<>>
    /\ current_z' = ChainStart(current_z, num_steps)
    /\ prev_pos' = OriginPos(num_steps)
    /\ term_j' = 1
    /\ pc' = "a_chain"
    /\ UNCHANGED <<notAnim, anim_coefficients, num_steps, step, epicycle_states, z>>

AnimChainTerm ==
    /\ pc = "a_chain"
    /\ term_j <= Len(anim_coefficients)
    /\ LET freq == anim_coefficients[term_j][1]
           coeff == anim_coefficients[term_j][2]
           radius == Magnitude(coeff)
           next_z == CxAddRotated(current_z, coeff, Angle(freq, step, num_steps))
           next_pos == AsPosition(next_z, num_steps)
       IN  /\ circles' = Append(circles, [center |-> CircleCenter(prev_pos, next_pos),
                                          radius |-> radius])
           /\ vectors' = Append(vectors, [start |-> prev_pos, end |-> next_pos])
           /\ current_z' = next_z
           /\ prev_pos' = next_pos
    /\ term_j' = term_j + 1
    /\ UNCHANGED <<notAnim, pc, anim_coefficients, num_steps, step, path_points,
                   epicycle_states, z>>

AnimFrameEnd ==
    /\ pc = "a_chain"
    /\ term_j > Len(anim_coefficients)
    /\ epicycle_states' = Append(epicycle_states,
                                 [circles |-> circles, vectors |-> vectors])
    /\ step' = step + 1
    /\ pc' = "a_loop"
    /\ UNCHANGED <<notAnim, anim_coefficients, num_steps, term_j, path_points, z,
                   circles, vectors, current_z, prev_pos>>

AnimReturn ==
    /\ pc = "a_loop"
    /\ step >= num_steps
    /\ pc' = "a_done"
    /\ UNCHANGED <<notAnim, animVars>>

AnimLocalsUnset ==
    /\ step = 0
    /\ term_j = 1
    /\ path_points = <<>>
    /\ epicycle_states = <<>>
    /\ z = None
    /\ circles = None
    /\ vectors = None
    /\ current_z = None
    /\ prev_pos = None

AnimIdle ==
    /\ anim_coefficients = <<>>
    /\ num_steps = 0
    /\ AnimLocalsUnset

----------------------------------------------------------------------------
(* Specifications *)

TspIdle ==
    /\ contours = <<>>
    /\ ordered = <<>>
    /\ current_pos = None
    /\ remaining = <<>>
    /\ best_contour = None
    /\ best_dist = Inf
    /\ should_reverse = FALSE

SvgIdle ==
    /\ paths = <<>>
    /\ samples_per_path = 0
    /\ all_contours = <<>>
    /\ path_idx = 1
    /\ points = <<>>
    /\ i = 0
    /\ t = 0

CloudIdle ==
    /\ ordered_points = <<>>
    /\ op_num = 1
    /\ op_den = 1

FourierIdle ==
    /\ coefficients = <<>>
    /\ energy_threshold = ThrDen
    /\ min_epicycles = 0
    /\ max_epicycles = 0
    /\ FourierLocalsUnset
    /\ k0_seen = <<>>

(* load_and_process_svg(filepath) on a path source of 0..MaxPaths segments *)
InitSvg ==
    /\ pc = "svg_paths"
    /\ caller = "direct"
    /\ samples_per_path \in 0..MaxSamples
    /\ paths \in SeqsUpTo(PathsFor(samples_per_path), MaxPaths)
    /\ all_contours = <<>>
    /\ path_idx = 1
    /\ points = <<>>
    /\ i = 0
    /\ t = 0
    /\ CloudIdle
    /\ TspIdle
    /\ FourierIdle
    /\ AnimIdle

NextSvg ==
    \/ SvgPathStart
    \/ SvgSample
    \/ SvgPathEnd
    \/ SvgStitch
    \/ TspEnter
    \/ TspIter
    \/ TspReturn
    \/ SvgClose
    \/ SvgCenter
    \/ SvgScale

SpecSvg == InitSvg /\ [][NextSvg]_vars

(* connect_contours_tsp(contours) called directly *)
GridPoints == {Pt(x, y) : x \in Coords, y \in Coords}

GridContours == SeqsUpTo(GridPoints, MaxContourLen) \ {<<>>}

ScenarioD == << <<Pt(0, 0), Pt(1, 0)>>, <<Pt(5, 5), Pt(6, 5)>> >>

InitTsp ==
    /\ pc = "tsp_entry"
    /\ caller = "direct"
    /\ contours \in {cs \in SeqsUpTo(GridContours, MaxContours) : Len(cs) >= 2}
                    \cup {ScenarioD}
    /\ ordered = <<>>
    /\ current_pos = None
    /\ remaining = <<>>
    /\ best_contour = None
    /\ best_dist = Inf
    /\ should_reverse = FALSE
    /\ SvgIdle
    /\ CloudIdle
    /\ FourierIdle
    /\ AnimIdle

NextTsp ==
    \/ TspEnter
    \/ TspIter
    \/ TspReturn

SpecTsp == InitTsp /\ [][NextTsp]_vars

(* the same, on lists in which no contour equals another or its reverse *)
HasDuplicate(cs) ==
    \E a, b \in 1..Len(cs) : a # b /\ (cs[a] = cs[b] \/ cs[a] = Reverse(cs[b]))

InitTspDistinct == InitTsp /\ ~HasDuplicate(contours)

SpecTspDistinct == InitTspDistinct /\ [][NextTsp]_vars

(* find_optimal_epicycles(coefficients) under every configuration *)
CoefficientSets ==
    {AsCoefficients(f) : f \in SeqsUpTo(CoeffValues, MaxTerms) \ {<<>>}}

InitFourier ==
    /\ pc = "f_sort"
    /\ caller = "direct"
    /\ coefficients \in CoefficientSets
    /\ energy_threshold \in 1..ThrDen
    /\ min_epicycles \in 0..MaxEpi
    /\ max_epicycles \in 0..MaxEpi
    /\ FourierLocalsUnset
    /\ k0_seen = <<>>
    /\ SvgIdle
    /\ CloudIdle
    /\ TspIdle
    /\ AnimIdle

NextFourier ==
    \/ FourierSort
    \/ FourierScan
    \/ FourierScanEnd
    \/ FourierFallback
    \/ FourierClamp
    \/ FourierFinal
    \/ FourierReturn

SpecFourier == InitFourier /\ [][NextFourier]_vars

(* the same function called again under other thresholds, bounds on the count
   left wide open *)
InitEnergy ==
    /\ InitFourier
    /\ min_epicycles = 0
    /\ max_epicycles = MaxEpi

NextEnergy ==
    \/ FourierSort
    \/ FourierScan
    \/ FourierScanEnd
    \/ FourierFallback
    \/ FourierClamp
    \/ FourierFinal
    \/ FourierReturn
    \/ FourierCallAgain

SpecEnergy == InitEnergy /\ [][NextEnergy]_vars

(* precompute_animation(coefficients, num_steps) *)
ChainTerms == {<<f, c>> : f \in ChainFreqs, c \in ChainCoeffs}

InitAnim ==
    /\ pc = "a_loop"
    /\ caller = "direct"
    /\ anim_coefficients \in SeqsUpTo(ChainTerms, MaxChain) \ {<<>>}
    /\ num_steps \in 1..MaxSteps
    /\ AnimLocalsUnset
    /\ SvgIdle
    /\ CloudIdle
    /\ TspIdle
    /\ FourierIdle

NextAnim ==
    \/ AnimFrameStart
    \/ AnimPenTerm
    \/ AnimPenDone
    \/ AnimChainTerm
    \/ AnimFrameEnd
    \/ AnimReturn

SpecAnim == InitAnim /\ [][NextAnim]_vars

----------------------------------------------------------------------------
(* Claims about connect_contours_tsp *)

SameContour(c, d) == c = d \/ c = Reverse(d)

CountIn(cs, v) == Cardinality({k \in 1..Len(cs) : SameContour(cs[k], v)})

RECURSIVE TotalPoints(_)
TotalPoints(cs) == IF cs = <<>> THEN 0 ELSE Len(Head(cs)) + TotalPoints(Tail(cs))

Bijections(n) == {f \in [1..n -> 1..n] : \A a, b \in 1..n : f[a] = f[b] => a = b}

(* C1: for every list of C >= 2 contours with P points in total, the traversal
   returned by connect_contours_tsp has exactly P points and every input
   contour appears in it exactly once as a contiguous block, in original or
   reversed orientation (lists with equal or mutually reversed contours
   included). *)
C1StitchComplete ==
    (pc = "tsp_done" /\ caller = "direct") =>
        /\ Len(ordered_points) = TotalPoints(contours)
        /\ ordered_points = Concat(ordered)
        /\ Len(ordered) = Len(contours)
        /\ \E f \in Bijections(Len(contours)) :
               \A k \in 1..Len(contours) : SameContour(ordered[f[k]], contours[k])

(* An input contour is not yet used while the traversal holds fewer blocks of
   its value (in either orientation) than the input list does. *)
NotYetUsed(k) == CountIn(contours, contours[k]) > CountIn(ordered, contours[k])

NearDist(pos, c) == Min(Dist2(pos, c[1]), Dist2(pos, c[Len(c)]))

C9Iteration ==
    (pc = "tsp_loop" /\ remaining # <<>>) =>
        /\ Len(ordered') = Len(ordered) + 1
        /\ LET block == ordered'[Len(ordered')]
               picked == IF should_reverse' THEN Reverse(block) ELSE block
               first == CHOOSE k \in 1..Len(contours) :
                            /\ contours[k] = picked
                            /\ \A j \in 1..(k - 1) : contours[j] # picked
           IN  /\ \E k \in 1..Len(contours) : contours[k] = picked /\ NotYetUsed(k)
               /\ \A k \in 1..Len(contours) :
                      NotYetUsed(k) =>
                          NearDist(current_pos, picked) <= NearDist(current_pos, contours[k])
               /\ should_reverse' <=>
                      Dist2(current_pos, picked[Len(picked)]) < Dist2(current_pos, picked[1])
               /\ \A k \in 1..(first - 1) :
                      NotYetUsed(k) =>
                          NearDist(current_pos, picked) < NearDist(current_pos, contours[k])
               /\ current_pos' = block[Len(block)]
               /\ ordered = <<>> => (block = contours[1] /\ ~should_reverse')
               /\ (contours = ScenarioD /\ Len(ordered) = 1) =>
                      (block = ScenarioD[2] /\ ~should_reverse')

(* C9: every iteration of the loop appends a contour whose nearer endpoint is
   at minimum distance from the current position among all endpoints of all
   not-yet-used contours, reversed exactly when its end is strictly nearer than
   its start, ties going to the earliest contour unreversed; the current
   position becomes the last point of the appended block; the first block is
   contour 0 unreversed and the second contour of [(0,0),(1,0)], [(5,5),(6,5)]
   is appended unreversed. *)
C9GreedyChoice == [][C9Iteration]_vars

----------------------------------------------------------------------------
(* Claims about find_optimal_epicycles *)

SubsetsOfSize(S, n) == {T \in SUBSET S : Cardinality(T) = n}

RECURSIVE EnergyOver(_, _)
EnergyOver(items, idx) ==
    IF idx = {} THEN 0
    ELSE LET k == CHOOSE k \in idx : TRUE
         IN  Energy(items[k][2]) + EnergyOver(items, idx \ {k})

(* the energy of the n largest coefficients *)
TopEnergy(items, n) ==
    LET sums == {EnergyOver(items, T) : T \in SubsetsOfSize(1..Len(items), n)}
    IN  CHOOSE e \in sums : \A f \in sums : f <= e

(* K0: the smallest prefix of the magnitude-descending list whose energy ratio
   is at least thr/ThrDen, N if no prefix reaches it *)
PreClampCount(items, thr) ==
    LET N == Len(items)
        total == TopEnergy(items, N)
        hits == {n \in 1..N : total > 0 /\ TopEnergy(items, n) * ThrDen >= thr * total}
    IN  IF hits = {} THEN N ELSE CHOOSE n \in hits : \A m \in hits : n <= m

ClampedCount(items, thr, lo, hi) ==
    LET k0 == PreClampCount(items, thr)
        capped == IF k0 <= hi THEN k0 ELSE hi
    IN  IF lo >= capped THEN lo ELSE capped

IsDescendingPrefix(terms, items) ==
    /\ \A k \in 1..Len(terms) : \E n \in 1..Len(items) : items[n] = terms[k]
    /\ \A a, b \in 1..Len(terms) : a # b => terms[a][1] # terms[b][1]
    /\ \A a, b \in 1..Len(terms) : a < b => Energy(terms[a][2]) >= Energy(terms[b][2])
    /\ \A n \in 1..Len(items) :
           (\A k \in 1..Len(terms) : terms[k] # items[n]) =>
               \A k \in 1..Len(terms) : Energy(items[n][2]) <= Energy(terms[k][2])

(* C2: for every coefficient set of N >= 1 terms and every configuration,
   find_optimal_epicycles returns normally with exactly
   K = max(min_epicycles, min(K0, max_epicycles)) terms, the first K entries of
   the magnitude-descending list, and the returned count is K. *)
C2ReturnsClampedCount ==
    pc \in {"f_done", "f_raised"} =>
        /\ pc = "f_done"
        /\ LET K == ClampedCount(coefficients, energy_threshold, min_epicycles,
                                 max_epicycles)
           IN  /\ result.count = K
               /\ Len(result.terms) = K
               /\ IsDescendingPrefix(result.terms, coefficients)

(* C4: for a fixed coefficient set and thresholds t1 <= t2 in (0,1], the count
   before clamping found under t2 is at least the one found under t1. *)
C4EnergyMonotone ==
    \A a, b \in 1..Len(k0_seen) :
        k0_seen[a][1] <= k0_seen[b][1] => k0_seen[a][2] <= k0_seen[b][2]

C4Witness ==
    /\ Len(k0_seen) = 2
    /\ k0_seen[1][1] > k0_seen[2][1]
    /\ k0_seen[1][2] > k0_seen[2][2]
    /\ k0_seen[2][2] >= 1

----------------------------------------------------------------------------
(* Claims about load_and_process_svg *)

Terminal == pc \in {"raised", "svg_done"}

(* C5: the cloud returned by close / centre / scale has first and last points
   within the closing tolerance of each other, whatever the input's extent:
   |first - last| * op_num / op_den <= ClosingTol. *)
C5ClosedOutput ==
    pc = "svg_done" =>
        Dist2(ordered_points[1], ordered_points[Len(ordered_points)])
            <= ((op_den * op_den * ClosingTol * ClosingTol) \div op_num) \div op_num

(* the parameter sample k of a segment must be evaluated at *)
ExpectedParam(path, k, M) ==
    IF k \in path.fails THEN (k * ParamGrid) \div M
    ELSE IF path.v = 0 THEN 0
    ELSE (k * k * ParamGrid) \div (M * M)

SampledAsClaimed(path, pts, n) ==
    \A k \in 0..(n - 1) :
        pts[k + 1] = <<path.ox, path.v * ExpectedParam(path, k, samples_per_path)>>

(* C6: whatever the pattern of arc-length-inversion failures, the sampling loop
   yields exactly samples_per_path points per segment and never aborts: a
   sample whose inversion raises is taken at t = i/M, every other sample at the
   inverted parameter. *)
C6SamplingFallback ==
    /\ \A p \in 1..Len(all_contours) :
           /\ Len(all_contours[p]) = samples_per_path
           /\ SampledAsClaimed(paths[p], all_contours[p], samples_per_path)
    /\ pc = "svg_sample" =>
           /\ Len(points) = i
           /\ SampledAsClaimed(paths[path_idx], points, i)
    /\ pc = "raised" => Len(all_contours) = Len(paths)

C6Witness ==
    /\ pc = "svg_done"
    /\ \E p \in 1..Len(paths) :
           /\ paths[p].v > 0
           /\ paths[p].fails # {}
           /\ \E k \in 1..(samples_per_path - 1) : k \notin paths[p].fails

Running ==
    pc \in {"svg_paths", "svg_sample", "tsp_entry", "tsp_loop", "close", "center", "scale"}

C7Outcome ==
    /\ pc = "raised" => (paths = <<>> \/ samples_per_path = 0)
    /\ pc = "svg_done" =>
           /\ paths # <<>>
           /\ samples_per_path >= 1
           /\ ordered_points # <<>>
    /\ (paths = <<>> \/ samples_per_path = 0) => pc # "svg_done"
    /\ Terminal \/ Running

(* every pass of a loop brings its end nearer *)
C7Progress ==
    /\ (pc = "svg_sample" /\ pc' = "svg_sample") =>
           (i < samples_per_path /\ i' = i + 1)
    /\ (pc = "svg_sample" /\ pc' = "svg_paths") =>
           (path_idx <= Len(paths) /\ path_idx' = path_idx + 1)
    /\ (pc = "tsp_loop" /\ pc' = "tsp_loop") => Len(remaining') < Len(remaining)

(* C7: with zero segments, or a segment of zero sampled points, the function
   ends in an error and returns no cloud; with at least one segment and at
   least one point per segment it returns a cloud without raising. *)
C7FatalOnlyOnEmptyInput == []C7Outcome /\ [][C7Progress]_vars

C7Witness ==
    /\ pc = "svg_done"
    /\ Len(paths) >= 2
    /\ Len(ordered_points) > samples_per_path

----------------------------------------------------------------------------
(* Claims about precompute_animation *)

(* the sum of the first n terms of E at step s of S *)
RECURSIVE PartialSum(_, _, _, _)
PartialSum(E, n, s, S) ==
    IF n = 0 THEN <<RZero(S), RZero(S)>>
    ELSE LET before == PartialSum(E, n - 1, s, S)
             k == (E[n][1] * s) % S
             a == E[n][2][1]
             b == E[n][2][2]
         IN  <<[before[1] EXCEPT ![k] = <<@[1] + a, @[2] - b>>],
               [before[2] EXCEPT ![k] = <<@[1] + b, @[2] + a>>]>>

PointOf(zz, S) == <<zz[1], zz[2], RZero(S)>>

(* the value of a real number whose angles are all quarter turns *)
QuarterCos(q) == IF q = 0 THEN 1 ELSE IF q = 2 THEN -1 ELSE 0

QuarterSin(q) == IF q = 1 THEN 1 ELSE IF q = 3 THEN -1 ELSE 0

RECURSIVE QuarterValueFrom(_, _, _)
QuarterValueFrom(r, k, S) ==
    IF k >= S THEN 0
    ELSE r[k][1] * QuarterCos((4 * k) \div S) + r[k][2] * QuarterSin((4 * k) \div S)
         + QuarterValueFrom(r, k + 1, S)

QuarterValue(r, S) == QuarterValueFrom(r, 0, S)

ScenarioB == << <<1, <<1, 0>>>> >>

(* C8: precompute_animation(E, S) yields S pen positions and S frames, the pen
   position of step s being the sum over the terms of E of
   coefficient * exp(2*pi*i*frequency*s/S) with third component 0; for
   E = [(1, 1+0i)] and S = 4 the positions are (1,0), (0,1), (-1,0), (0,-1). *)
C8PenPositions ==
    /\ \A f \in 1..Len(path_points) :
           path_points[f] =
               PointOf(PartialSum(anim_coefficients, Len(anim_coefficients), f - 1,
                                  num_steps), num_steps)
    /\ pc = "a_done" =>
           /\ Len(path_points) = num_steps
           /\ Len(epicycle_states) = num_steps
           /\ (anim_coefficients = ScenarioB /\ num_steps = 4) =>
                  [f \in 1..4 |-> <<QuarterValue(path_points[f][1], 4),
                                    QuarterValue(path_points[f][2], 4),
                                    QuarterValue(path_points[f][3], 4)>>]
                      = << <<1, 0, 0>>, <<0, 1, 0>>, <<-1, 0, 0>>, <<0, -1, 0>> >>

C8Witness ==
    /\ pc = "a_done"
    /\ anim_coefficients = ScenarioB
    /\ num_steps = 4

(* C3: in every frame of an EpicycleSet of K >= 1 terms, vectors[0].start is
   the origin, circles[i].center = vectors[i].start, vectors[i].end =
   vectors[i+1].start = circles[i+1].center, circles[i].radius = |coefficient i|
   and vectors[K-1].end is the pen position stored for the frame. *)
C3FrameConsistency ==
    \A f \in 1..Len(epicycle_states) :
        LET fr == epicycle_states[f]
            K == Len(anim_coefficients)
        IN  /\ Len(fr.circles) = K
            /\ Len(fr.vectors) = K
            /\ fr.vectors[1].start = <<RZero(num_steps), RZero(num_steps), RZero(num_steps)>>
            /\ \A j \in 1..K :
                   /\ fr.circles[j].center = fr.vectors[j].start
                   /\ fr.circles[j].radius =
                          [sqrt_of |-> anim_coefficients[j][2][1] * anim_coefficients[j][2][1]
                                       + anim_coefficients[j][2][2] * anim_coefficients[j][2][2]]
            /\ \A j \in 1..(K - 1) :
                   /\ fr.vectors[j].end = fr.vectors[j + 1].start
                   /\ fr.vectors[j].end = fr.circles[j + 1].center
            /\ fr.vectors[K].end = path_points[f]

C3Witness ==
    /\ pc = "a_done"
    /\ Len(anim_coefficients) >= 2
    /\ Len(epicycle_states) >= 2
    /\ epicycle_states[2].vectors[1].end # epicycle_states[2].vectors[2].end
    /\ epicycle_states[2].vectors[1].end # epicycle_states[1].vectors[1].end

(* the frame of step s as a function of s, S and E alone *)
FrameOf(E, s, S) ==
    [circles |-> [j \in 1..Len(E) |->
                     [center |-> PointOf(PartialSum(E, j - 1, s, S), S),
                      radius |-> [sqrt_of |-> E[j][2][1] * E[j][2][1]
                                              + E[j][2][2] * E[j][2][2]]]],
     vectors |-> [j \in 1..Len(E) |->
                     [start |-> PointOf(PartialSum(E, j - 1, s, S), S),
                      end |-> PointOf(PartialSum(E, j, s, S), S)]]]

FramesIndependent ==
    /\ Len(epicycle_states) <= Len(path_points)
    /\ \A f \in 1..Len(epicycle_states) :
           epicycle_states[f] = FrameOf(anim_coefficients, f - 1, num_steps)
    /\ \A f \in 1..Len(path_points) :
           path_points[f] = FrameOf(anim_coefficients, f - 1, num_steps)
                                .vectors[Len(anim_coefficients)].end

(* C10: every frame depends only on its step index, the frame count and the
   EpicycleSet, nothing written for one frame being read for another, so the
   sequences gathered by index are those of the sequential loop whatever the
   order of computation; the EpicycleSet is left unchanged. *)
C10FramesIndependent ==
    /\ []FramesIndependent
    /\ [][anim_coefficients' = anim_coefficients /\ num_steps' = num_steps]_vars

C10Witness ==
    /\ pc = "a_done"
    /\ Len(epicycle_states) >= 3
    /\ epicycle_states[3] # epicycle_states[2]
    /\ current_z # <<RZero(num_steps), RZero(num_steps)>>

====
